---- MODULE Spec2Model ----
(***************************************************************************)
(* jira-worklog-tracker: the two report pipelines of src/src/index.ts.     *)
(*   detail variant  (lines 1-267):  week window, paginator, one batch     *)
(*       fetch, time-window filter, bulk issue search, one row per worklog *)
(*   summary variant (lines 269-523): last-week window, paginator, chunked *)
(*       batch fetch, grouping per (author, issue), memoized issue lookup  *)
(* One run of one variant is one behaviour; the service (its worklogs, its *)
(* issues, its answers) and the clock / command line are the inputs.       *)
(***************************************************************************)
EXTENDS Integers, Sequences, FiniteSets, TLC

\* ---------------------------------------------------------------- bounds
MaxLogs == 3        \* worklogs held by the service in the small worlds
MaxPageSize == 3    \* page sizes tried when the paginator is called directly
MaxTotal == 7       \* totals tried when the paginator is called directly
MaxChunks == 2      \* the large worlds hold up to MaxChunks full chunks (+ a rest)
NumYears == 5       \* calendar years 2020 .. 2019 + NumYears of the clock
MaxRerunLogs == 2   \* worklogs held by the service when the program is run twice
MaxChangingTotal == 5   \* largest total a changing service reports
MaxWeek == 53       \* --week numbers 1 .. MaxWeek tried in each year

\* ------------------------------------------------------ program constants
maxResultsDefault == 100   \* default page size of both paginators
chunkSize == 100           \* batch size of the summary variant

\* ------------------------------------------------------------- calendar
\* An instant is [day |-> days since 1970-01-01 (local), ms |-> ms of that day].
EndOfDayMs == 24 * 60 * 60 * 1000 - 1

Instant(d, m) == [day |-> d, ms |-> m]

Before(a, b) == a.day < b.day \/ (a.day = b.day /\ a.ms < b.ms)

AtOrBefore(a, b) == a = b \/ Before(a, b)

IsLeap(y) == (y % 4 = 0 /\ y % 100 # 0) \/ y % 400 = 0

LeapsBefore(y) == (y - 1) \div 4 - (y - 1) \div 100 + (y - 1) \div 400

DaysBeforeMonth == <<0, 31, 59, 90, 120, 151, 181, 212, 243, 273, 304, 334>>

\* new Date(year, monthIndex, date): local midnight of that calendar day
newDate(year, monthIndex, date) ==
    365 * (year - 1970) + LeapsBefore(year) - LeapsBefore(1970)
    + DaysBeforeMonth[monthIndex + 1]
    + (IF IsLeap(year) /\ monthIndex >= 2 THEN 1 ELSE 0)
    + date - 1

\* Date.prototype.getFullYear
getFullYear(t) ==
    CHOOSE y \in (2019 .. (2020 + NumYears)) :
        newDate(y, 0, 1) <= t.day /\ t.day < newDate(y + 1, 0, 1)

\* Date.prototype.getDay: Sunday = 0 .. Saturday = 6 (1970-01-01 was a Thursday)
getDay(t) == (t.day + 4) % 7

\* date-fns startOfISOWeek = startOfWeek(date, {weekStartsOn: 1})
startOfISOWeek(t) ==
    LET day == getDay(t)
        diff == (IF day < 1 THEN 7 ELSE 0) + day - 1
    IN  Instant(t.day - diff, 0)

\* date-fns endOfISOWeek = endOfWeek(date, {weekStartsOn: 1})
endOfISOWeek(t) ==
    LET day == getDay(t)
        diff == (IF day < 1 THEN -7 ELSE 0) + 6 - (day - 1)
    IN  Instant(t.day + diff, EndOfDayMs)

\* date-fns getISOWeekYear
getISOWeekYear(t) ==
    LET year == getFullYear(t)
        startOfNextYear == startOfISOWeek(Instant(newDate(year + 1, 0, 4), 0))
        startOfThisYear == startOfISOWeek(Instant(newDate(year, 0, 4), 0))
    IN  IF AtOrBefore(startOfNextYear, t) THEN year + 1
        ELSE IF AtOrBefore(startOfThisYear, t) THEN year
        ELSE year - 1

\* date-fns startOfISOWeekYear
startOfISOWeekYear(t) ==
    startOfISOWeek(Instant(newDate(getISOWeekYear(t), 0, 4), 0))

\* date-fns getISOWeek: round((startOfISOWeek - startOfISOWeekYear) / week) + 1
getISOWeek(t) ==
    (startOfISOWeek(t).day - startOfISOWeekYear(t).day) \div 7 + 1

\* date-fns setISOWeek: move the date by whole weeks
setISOWeek(t, week) ==
    LET diff == getISOWeek(t) - week
    IN  Instant(t.day - diff * 7, t.ms)

\* a week range counted from 1 January instead of 4 January
getWeekRange_January1st(weekNumber, year) ==
    LET january1st == Instant(newDate(year, 0, 1), 0)
        dateInWeek == setISOWeek(january1st, weekNumber)
    IN  [weekStart |-> startOfISOWeek(dateInWeek),
         weekEnd |-> endOfISOWeek(dateInWeek)]

\* getWeekRange (detail variant)
getWeekRange(weekNumber, year) ==
    LET january4th == Instant(newDate(year, 0, 4), 0)
        dateInWeek == setISOWeek(january4th, weekNumber)
    IN  [weekStart |-> startOfISOWeek(dateInWeek),
         weekEnd |-> endOfISOWeek(dateInWeek)]

\* a last-week range that takes Sunday as day 0 of its week
getLastWeekRange_SundayFirst(today) ==
    LET todayMidnight == Instant(today.day, 0)
        dayOfWeek == getDay(todayMidnight)
        currentMonday == todayMidnight.day - (dayOfWeek - 1)
        lastWeekMonday == currentMonday - 7
        lastWeekSunday == lastWeekMonday + 6
    IN  [start |-> Instant(lastWeekMonday, 0),
         end |-> Instant(lastWeekSunday, EndOfDayMs)]

\* getLastWeekRange (summary variant)
getLastWeekRange(today) ==
    LET todayMidnight == Instant(today.day, 0)
        dayOfWeek == IF getDay(todayMidnight) = 0 THEN 7 ELSE getDay(todayMidnight)
        currentMonday == todayMidnight.day - (dayOfWeek - 1)
        lastWeekMonday == currentMonday - 7
        lastWeekSunday == lastWeekMonday + 6
    IN  [start |-> Instant(lastWeekMonday, 0),
         end |-> Instant(lastWeekSunday, EndOfDayMs)]

\* The local clock's zones: one without clock changes and one with the
\* European summer time (last Sunday of March 02:00 -> 03:00, last Sunday of
\* October 03:00 -> 02:00).
TimeZones == {"UTC", "Europe/Amsterdam"}

HourMs == 60 * 60 * 1000

\* the last Sunday of a 31-day month
LastSunday(year, monthIndex) ==
    CHOOSE d \in (newDate(year, monthIndex, 25)) .. (newDate(year, monthIndex, 31)) :
        (d + 4) % 7 = 0

\* the zone's offset from UTC at a local instant
UtcOffset(zone, t) ==
    IF zone = "UTC" THEN 0
    ELSE LET year == getFullYear(t)
             summerStart == Instant(LastSunday(year, 2), 2 * HourMs)
             summerEnd == Instant(LastSunday(year, 9), 3 * HourMs)
         IN  IF AtOrBefore(summerStart, t) /\ Before(t, summerEnd)
             THEN 2 * HourMs ELSE HourMs

\* Date.prototype.getTime: the instant on the UTC time line
getTime(zone, t) ==
    LET m == t.ms - UtcOffset(zone, t)
    IN  IF m < 0 THEN Instant(t.day - 1, m + 24 * HourMs) ELSE Instant(t.day, m)

\* date-fns isWithinInterval: start <= date <= end
isWithinInterval(date, start, end) ==
    AtOrBefore(start, date) /\ AtOrBefore(date, end)

\* ------------------------------------------------- the service's records
Authors == {"Jane Doe", "John Doe"}

IssueIds == {10001, 10002}

IssueStates == {"ok", "nokey", "missing"}

\* A duration literal is a string, held as the sequence of its characters:
\* "1h 30m" is <<"1", "h", " ", "3", "0", "m">>.  The literals of this model
\* hold no sign, decimal point or exponent.
TimeSpentOf(id) ==
    CASE id % 3 = 1 -> <<"2", "0", "m">>
      [] id % 3 = 2 -> <<"4", "0", "m">>
      [] OTHER      -> <<"1", "h", " ", "3", "0", "m">>

\* A rich-text comment.  A property that may be missing is <<>> when it is
\* and <<value>> when it is not: the comment of a worklog, the content of a
\* comment, the content of a block, the text of a span.
Span(word) == [text |-> <<word>>]

Block(spans) == [content |-> <<spans>>]

Document(blocks) == <<[content |-> <<blocks>>]>>

CommentOf(id) ==
    IF id % 4 = 0 THEN <<>>
    ELSE Document(<<Block(<<Span("note"), Span(ToString(id))>>)>>)

\* A raw worklog as POST /worklog/list returns it.
ServerLog(id, author, issueId, started) ==
    [id |-> id, issueId |-> issueId, author |-> [displayName |-> author],
     created |-> Instant(started.day, id), updated |-> Instant(started.day + 1, id),
     started |-> started, timeSpent |-> TimeSpentOf(id), comment |-> CommentOf(id)]

\* An issue as the search and the per-id lookup return it.
KeyOf(state, id) == IF state = "ok" THEN "KEY-" \o ToString(id) ELSE ""

ServerIssue(state, id) ==
    [id |-> id, key |-> KeyOf(state, id),
     fields |-> [summary |-> "Summary " \o ToString(id),
                 parent |-> "", components |-> <<[name |-> "Frontend"]>>]]

\* ------------------------------------------------------ pure helpers
RECURSIVE JoinText(_, _)
\* Array.prototype.join over pieces of text (each a sequence of words)
JoinText(parts, sep) ==
    IF parts = <<>> THEN <<>>
    ELSE IF Len(parts) = 1 THEN parts[1]
    ELSE parts[1] \o <<sep>> \o JoinText(Tail(parts), sep)

\* A value that is a string or undefined; a string is the sequence of its
\* pieces (words and separators), "" the empty sequence.
Str(pieces) == [defined |-> TRUE, text |-> pieces]

Undefined == [defined |-> FALSE, text |-> <<>>]

\* Array.prototype.join over strings and undefined: undefined counts as ""
join(values, sep) ==
    Str(JoinText([k \in 1 .. Len(values) |->
                     IF values[k].defined THEN values[k].text ELSE <<>>], sep))

\* block.content?.map((c) => c.text).join(" ")
blockText(block) ==
    IF block.content = <<>> THEN Undefined
    ELSE LET spans == block.content[1]
         IN  join([c \in 1 .. Len(spans) |->
                      IF spans[c].text = <<>> THEN Undefined ELSE Str(spans[c].text)], " ")

\* log.comment?.content?.map(...).join(" ")
commentText(comment) ==
    IF comment = <<>> THEN Undefined
    ELSE IF comment[1].content = <<>> THEN Undefined
    ELSE LET blocks == comment[1].content[1]
         IN  join([b \in 1 .. Len(blocks) |-> blockText(blocks[b])], " ")

\* a flattening without the || ""
flattenComment_NoDefault(comment) == commentText(comment)

\* comment flattening of getWorklogs / getWorklogDetails: ... || ""
flattenComment(comment) ==
    LET flat == commentText(comment)
    IN  IF ~flat.defined \/ flat.text = <<>> THEN Str(<<>>) ELSE flat

\* getWorklogs: the normalised record of the detail variant
normalizeDetail(log) ==
    [id |-> log.id, issueId |-> log.issueId, author |-> log.author.displayName,
     created |-> log.created, updated |-> log.updated, started |-> log.started,
     timeSpent |-> log.timeSpent, comment |-> flattenComment(log.comment)]

\* getWorklogDetails: the normalised record of the summary variant
normalizeSummary(log) ==
    [id |-> log.id, issueKey |-> log.issueId, author |-> log.author.displayName,
     created |-> log.created, updated |-> log.updated, started |-> log.started,
     timeSpent |-> log.timeSpent, comment |-> flattenComment(log.comment)]

\* A number of the program: NaN or an integer.
NaN == [nan |-> TRUE, value |-> 0]

Num(n) == [nan |-> FALSE, value |-> n]

\* a * k
Times(a, k) == IF a.nan THEN NaN ELSE Num(a.value * k)

\* a + b
Plus(a, b) == IF a.nan \/ b.nan THEN NaN ELSE Num(a.value + b.value)

\* a || 0
OrZero(a) == IF a.nan \/ a.value = 0 THEN Num(0) ELSE a

Digits == <<"0", "1", "2", "3", "4", "5", "6", "7", "8", "9">>

IsDigit(c) == \E k \in 1 .. 10 : Digits[k] = c

DigitValue(c) == (CHOOSE k \in 1 .. 10 : Digits[k] = c) - 1

RECURSIVE DecimalValue(_)
\* the value of a sequence of digits
DecimalValue(digits) ==
    IF digits = <<>> THEN 0
    ELSE 10 * DecimalValue(SubSeq(digits, 1, Len(digits) - 1))
         + DigitValue(digits[Len(digits)])

\* String.prototype.trim
trim(s) ==
    LET inked == {k \in 1 .. Len(s) : s[k] # " "}
    IN  IF inked = {} THEN <<>>
        ELSE SubSeq(s, CHOOSE k \in inked : \A j \in inked : k <= j,
                       CHOOSE k \in inked : \A j \in inked : j <= k)

\* String.prototype.endsWith
endsWith(s, c) == s # <<>> /\ s[Len(s)] = c

\* parseFloat: the digits a string begins with, after leading white space;
\* NaN when it begins with none
parseFloat(s) ==
    LET inked == {k \in 1 .. Len(s) : s[k] # " "}
        from == IF inked = {} THEN Len(s) + 1
                ELSE CHOOSE k \in inked : \A j \in inked : k <= j
        stops == {k \in from .. Len(s) : ~IsDigit(s[k])}
        to == IF stops = {} THEN Len(s)
              ELSE (CHOOSE k \in stops : \A j \in stops : k <= j) - 1
    IN  IF to < from THEN NaN ELSE Num(DecimalValue(SubSeq(s, from, to)))

\* a parser that counts a day as 24 hours
parseTimeSpent_FullDay(timeSpent) ==
    LET trimmed == trim(timeSpent)
        number == parseFloat(SubSeq(trimmed, 1, Len(trimmed) - 1))
    IN  IF endsWith(trimmed, "m") THEN number
        ELSE IF endsWith(trimmed, "h") THEN Times(number, 60)
        ELSE IF endsWith(trimmed, "d") THEN Times(number, 24 * 60)
        ELSE Num(0)

\* parseTimeSpent (summary variant)
parseTimeSpent(timeSpent) ==
    LET trimmed == trim(timeSpent)
        number == parseFloat(SubSeq(trimmed, 1, Len(trimmed) - 1))
    IN  IF endsWith(trimmed, "m") THEN number
        ELSE IF endsWith(trimmed, "h") THEN Times(number, 60)
        ELSE IF endsWith(trimmed, "d") THEN Times(number, 8 * 60)
        ELSE Num(0)

\* A token of parse-duration: a number and the unit that follows it.
Tok(n, u) == [n |-> n, u |-> u]

RECURSIVE Tokens(_)
\* the <number><unit> tokens of a literal, in order; text that begins with
\* no number is skipped
Tokens(s) ==
    IF s = <<>> THEN <<>>
    ELSE IF ~IsDigit(s[1]) THEN Tokens(Tail(s))
    ELSE LET stops == {k \in 1 .. Len(s) : ~IsDigit(s[k])}
             numEnd == IF stops = {} THEN Len(s)
                       ELSE (CHOOSE k \in stops : \A j \in stops : k <= j) - 1
             rest == SubSeq(s, numEnd + 1, Len(s))
             ends == {k \in 1 .. Len(rest) : rest[k] = " " \/ IsDigit(rest[k])}
             unitEnd == IF ends = {} THEN Len(rest)
                        ELSE (CHOOSE k \in ends : \A j \in ends : k <= j) - 1
         IN  <<Tok(DecimalValue(SubSeq(s, 1, numEnd)), SubSeq(rest, 1, unitEnd))>>
             \o Tokens(SubSeq(rest, unitEnd + 1, Len(rest)))

RECURSIVE SumTokens(_)
SumTokens(tokens) ==
    IF tokens = <<>> THEN 0
    ELSE LET t == tokens[1]
             unitMs == CASE t.u = <<"m">> -> 60 * 1000
                         [] t.u = <<"h">> -> 60 * 60 * 1000
                         [] t.u = <<"d">> -> 24 * 60 * 60 * 1000
                         [] OTHER -> 0
         IN  t.n * unitMs + SumTokens(Tail(tokens))

\* parse-duration (detail variant): the sum of all tokens, in milliseconds
parseDuration(timeSpent) == SumTokens(Tokens(timeSpent))

\* (duration / 3,600,000).toLocaleString("nl-nl", two fraction digits)
hoursSpentOf(duration) ==
    LET cents == (duration + 18000) \div 36000
    IN  [whole |-> cents \div 100, sep |-> ",", frac |-> cents % 100]

\* date-fns format(date, "Pp")
format(date, pattern) == [pattern |-> pattern, date |-> date]

RECURSIVE SortedSeq(_)
\* the elements of a finite set of numbers, ascending
SortedSeq(S) ==
    IF S = {} THEN <<>>
    ELSE LET m == CHOOSE a \in S : \A b \in S : a <= b
         IN  <<m>> \o SortedSeq(S \ {m})

Reverse(s) == [k \in 1 .. Len(s) |-> s[Len(s) + 1 - k]]

\* [...new Set(seq)]: first occurrences, in order
Distinct(s) ==
    LET firsts == SortedSeq({k \in 1 .. Len(s) : \A j \in 1 .. (k - 1) : s[j] # s[k]})
    IN  [k \in 1 .. Len(firsts) |-> s[firsts[k]]]

Range(s) == {s[k] : k \in 1 .. Len(s)}

\* a slice that takes one element too many
slice_Overlong(s, from, to) ==
    SubSeq(s, from + 1, IF to + 1 < Len(s) THEN to + 1 ELSE Len(s))

\* Array.prototype.slice(from, to) with 0-based bounds
slice(s, from, to) ==
    SubSeq(s, from + 1, IF to < Len(s) THEN to ELSE Len(s))

\* --------------------------------------------------------------- state
VARIABLES
    entry,          \* "main": a run of the program; "paginator": the paginator called
                    \* directly; "twice": the program run, then run again
    variant,        \* "detail" | "summary"
    env,            \* process.env after dotenv: JIRA_EMAIL, JIRA_API_TOKEN, JIRA_DOMAIN
    now,            \* the clock: new Date()
    tz,             \* the time zone of the local clock
    argv,           \* the command line: [week, csv]
    serverLogs,     \* the service's worklogs matching the query, in result order
    service,        \* "steady": the worklogs stay as they are during the run;
                    \* "changing": worklogs come and go between page requests
    serverIssues,   \* the service's issues: IssueIds -> IssueStates
    pc,             \* the run's position
    weekNumber, weekStart, weekEnd,
    maxResults, startAt, accum,
    requests,       \* every request issued so far, with its answer, in order
    worklogIds, i, allLogs, filteredWorklogs, issues,
    groupedByAuthorAndIssue, ticketCache, tableRows,
    table,          \* console.table output: <<>> or <<rows>>
    csvFile,        \* the file written: <<>> or <<[path, content]>>
    err,            \* what the catch block logged: "" when nothing
    earlier         \* the runs that came before this one: what each asked and emitted

inputs == <<entry, variant, env, now, tz, argv, serverLogs, service, serverIssues>>

window == <<weekNumber, weekStart, weekEnd>>

paging == <<maxResults, startAt, accum, worklogIds>>

fetched == <<i, allLogs, filteredWorklogs, issues>>

summed == <<groupedByAuthorAndIssue, ticketCache>>

output == <<tableRows, table, csvFile>>

vars == <<inputs, pc, window, paging, requests, fetched, summed, output, err, earlier>>

\* ----------------------------------------------------------- the service
\* GET /worklog/updated?startAt=s&maxResults=m: the ids at positions [s, s+m)
\* of the result and its total
ServerPage(logs, s, m) ==
    LET last == IF s + m < Len(logs) THEN s + m ELSE Len(logs)
    IN  [values |-> [k \in 1 .. (IF last > s THEN last - s ELSE 0) |->
                        [worklogId |-> logs[s + k].id]],
         total |-> Len(logs)]

\* the answers the service may give to a page request: of a steady service
\* the page of its worklogs; of a changing one the page of however many of
\* its worklogs match at that moment
PageAnswers(kind, logs, s, m) ==
    IF kind = "steady" THEN {ServerPage(logs, s, m)}
    ELSE {ServerPage(SubSeq(logs, 1, t), s, m) : t \in 0 .. Len(logs)}

\* POST /worklog/list {ids}: the worklogs, in the service's order
ServerList(logs, ids, reversed) ==
    LET found == [k \in 1 .. Len(ids) |-> logs[ids[k]]]
    IN  IF reversed THEN Reverse(found) ELSE found

\* POST /search/jql "id in (...)": the issues that exist
ServerSearch(states, issueIds) ==
    LET present == SortedSeq({id \in Range(issueIds) : states[id] # "missing"})
    IN  [issues |-> [k \in 1 .. Len(present) |-> ServerIssue(states[present[k]], present[k])]]

\* GET /issue/{id}: the issue, 404 when it does not exist
ServerIssueFound(states, issueId) == states[issueId] # "missing"

\* ------------------------------------------------------------ the client
Response(ok, body) == [ok |-> ok, body |-> body]

\* a client that does not look at the response status
Throws_Never(res) == FALSE

\* APIClient.get / APIClient.post: if (!res.ok) throw
Throws(res) == ~res.ok

Req(kind, s, m, ids, res, returned) ==
    [kind |-> kind, startAt |-> s, maxResults |-> m, ids |-> ids,
     ok |-> res.ok, returned |-> IF res.ok THEN returned ELSE <<>>,
     total |-> IF kind = "page" /\ res.ok THEN res.body.total ELSE 0]

NoError == ""

HttpError == "request failed: status, status text, body"

\* ----------------------------------------------------------- the inputs
SmallNow == Instant(newDate(2024, 2, 13), 12 * 60 * 60 * 1000)

SmallWindow == getWeekRange(getISOWeek(SmallNow), getFullYear(SmallNow))

\* around both ends of the window the detail variant resolves at SmallNow
StartedChoices ==
    {Instant(SmallWindow.weekStart.day - 1, EndOfDayMs), SmallWindow.weekStart,
     SmallWindow.weekEnd, Instant(SmallWindow.weekEnd.day + 1, 0)}

AuthorAt(k) == IF k % 2 = 1 THEN "Jane Doe" ELSE "John Doe"

IssueAt(k) == IF k % 3 = 0 THEN 10002 ELSE 10001

\* the k-th worklog of a patterned world: always inside SmallWindow, every
\* seventh at its very start, the one before at its very end
PatternLog(k) ==
    ServerLog(k, AuthorAt(k), IssueAt(k),
              CASE k % 7 = 0 -> SmallWindow.weekStart
                [] k % 7 = 6 -> SmallWindow.weekEnd
                [] OTHER -> Instant(SmallWindow.weekStart.day + (k % 7), k))

PatternLogs(n) == [k \in 1 .. n |-> PatternLog(k)]

LargeTotals ==
    {c * chunkSize + d : c \in 1 .. MaxChunks, d \in {-1, 0, 1, chunkSize \div 2}}

Dates ==
    {Instant(d, m) : d \in newDate(2020, 0, 1) .. (newDate(2020 + NumYears, 0, 1) - 1),
                     m \in {0}}

WeekArgs == {<<>>, <<1>>, <<11>>}

CsvArgs == {"", "out.csv"}

AllOk == [id \in IssueIds |-> "ok"]

\* an environment variable is not set, set to the empty string, or set
EnvValues == {"undefined", "", "value"}

Environments == [email : EnvValues, apiToken : EnvValues, jiraDomain : EnvValues]

AllSet == [email |-> "value", apiToken |-> "value", jiraDomain |-> "value"]

IssueWorlds == {[id \in IssueIds |-> IF id = 10001 THEN st ELSE "ok"] : st \in IssueStates}

InitProgram ==
    /\ pc = IF entry = "paginator" THEN "page" ELSE "boot"
    /\ earlier = <<>>
    /\ weekNumber = 0 /\ weekStart = Instant(0, 0) /\ weekEnd = Instant(0, 0)
    /\ startAt = 0 /\ accum = <<>> /\ requests = <<>> /\ worklogIds = <<>>
    /\ i = 0 /\ allLogs = <<>> /\ filteredWorklogs = <<>> /\ issues = <<>>
    /\ groupedByAuthorAndIssue = <<>> /\ ticketCache = <<>>
    /\ tableRows = <<>> /\ table = <<>> /\ csvFile = <<>> /\ err = NoError

\* the paginator called directly, with any page size
InitPaginator ==
    /\ entry = "paginator" /\ variant \in {"detail", "summary"}
    /\ now = SmallNow /\ argv = [week |-> <<>>, csv |-> ""]
    /\ tz = "UTC" /\ env = AllSet /\ service = "steady"
    /\ maxResults \in 1 .. MaxPageSize
    /\ \E n \in 0 .. MaxTotal : serverLogs = PatternLogs(n)
    /\ serverIssues = AllOk

\* runs against a service holding enough worklogs for several pages and chunks
InitLarge ==
    /\ entry = "main" /\ variant \in {"detail", "summary"}
    /\ now = SmallNow /\ argv \in [week : {<<>>}, csv : CsvArgs]
    /\ tz = "UTC" /\ env = AllSet /\ service = "steady"
    /\ maxResults = maxResultsDefault
    /\ \E n \in LargeTotals : serverLogs = PatternLogs(n)
    /\ serverIssues = AllOk

\* summary runs against every small set of worklogs
InitSmallSummary ==
    /\ entry = "main" /\ variant = "summary"
    /\ now = SmallNow /\ argv \in [week : {<<>>}, csv : CsvArgs]
    /\ tz = "UTC" /\ env = AllSet /\ service = "steady"
    /\ maxResults = maxResultsDefault
    /\ \E n \in 0 .. MaxLogs : \E f \in [1 .. n -> Authors \X IssueIds] :
           serverLogs = [k \in 1 .. n |-> ServerLog(k, f[k][1], f[k][2], SmallNow)]
    /\ serverIssues \in IssueWorlds

\* detail runs against every small set of worklogs around the window's ends
InitSmallDetail ==
    /\ entry = "main" /\ variant = "detail"
    /\ now = SmallNow /\ argv = [week |-> <<>>, csv |-> ""]
    /\ tz = "UTC" /\ env = AllSet /\ service = "steady"
    /\ maxResults = maxResultsDefault
    /\ \E n \in 0 .. MaxLogs : \E f \in [1 .. n -> IssueIds \X StartedChoices] :
           serverLogs = [k \in 1 .. n |-> ServerLog(k, AuthorAt(k), f[k][1], f[k][2])]
    /\ serverIssues \in IssueWorlds

\* runs on every day of the clock's years, with and without --week; summary
\* runs at the first and at the last millisecond of every day
InitDates ==
    /\ entry = "main" /\ variant \in {"detail", "summary"}
    /\ now \in IF variant = "detail" THEN Dates
               ELSE Dates \cup {Instant(t.day, EndOfDayMs) : t \in Dates}
    /\ tz = "UTC" /\ env = AllSet /\ service = "steady"
    /\ argv \in [week : IF variant = "detail" THEN WeekArgs ELSE {<<>>}, csv : {""}]
    /\ maxResults = maxResultsDefault
    /\ serverLogs = <<>>
    /\ serverIssues = AllOk

\* detail runs with every --week, in the middle of each of the clock's years
InitWeeks ==
    /\ entry = "main" /\ variant = "detail"
    /\ \E y \in 2020 .. (2019 + NumYears) : now = Instant(newDate(y, 6, 1), 0)
    /\ tz \in TimeZones /\ env = AllSet /\ service = "steady"
    /\ \E w \in 1 .. MaxWeek : argv = [week |-> <<w>>, csv |-> ""]
    /\ maxResults = maxResultsDefault
    /\ serverLogs = <<>>
    /\ serverIssues = AllOk

\* duration literals: simple ones of each unit, with white space around, of
\* other units, without a unit, without a number, and compound ones
Literals ==
    {<<"2", "h">>, <<"3", "0", "m">>, <<"1", "d">>,
     <<"g", "a", "r", "b", "a", "g", "e">>,
     <<" ", "2", "h", " ">>, <<"1", "5", "m", " ">>, <<"1", "w">>, <<"4", "5">>,
     <<"2", "H">>, <<>>, <<" ">>, <<"m">>, <<"1", "h", " ", "3", "0", "m">>}

\* rich-text comments: missing, without content, without blocks, of one and
\* of several blocks, with a block without content or without spans, with a
\* span without text
Comments ==
    {<<>>, <<[content |-> <<>>]>>, Document(<<>>),
     Document(<<Block(<<Span("Fixed"), Span("bug")>>), Block(<<Span("Done")>>)>>),
     Document(<<[content |-> <<>>], Block(<<Span("Done")>>)>>),
     Document(<<Block(<<>>)>>),
     Document(<<Block(<<[text |-> <<>>], Span("x")>>)>>),
     Document(<<Block(<<Span("a")>>), Block(<<Span("b")>>),
                Block(<<Span("c"), Span("d")>>)>>)}

\* runs over one worklog with any of the comments
InitComments ==
    /\ entry = "main" /\ variant \in {"detail", "summary"}
    /\ now = SmallNow
    /\ tz = "UTC" /\ env = AllSet /\ service = "steady"
    /\ argv = [week |-> <<>>, csv |-> ""]
    /\ maxResults = maxResultsDefault
    /\ \E comment \in Comments :
           serverLogs = <<[PatternLog(1) EXCEPT !.comment = comment]>>
    /\ serverIssues = AllOk

\* summary runs over one worklog with any of the duration literals
InitLiterals ==
    /\ entry = "main" /\ variant = "summary"
    /\ now = SmallNow
    /\ tz = "UTC" /\ env = AllSet /\ service = "steady"
    /\ argv = [week |-> <<>>, csv |-> ""]
    /\ maxResults = maxResultsDefault
    /\ \E lit \in Literals :
           serverLogs = <<[ServerLog(1, "Jane Doe", 10001, SmallNow)
                              EXCEPT !.timeSpent = lit]>>
    /\ serverIssues = AllOk

\* the paginator called directly against a service whose worklogs come and
\* go between the page requests
InitChanging ==
    /\ entry = "paginator" /\ variant \in {"detail", "summary"}
    /\ now = SmallNow
    /\ tz = "UTC" /\ env = AllSet /\ service = "changing"
    /\ argv = [week |-> <<>>, csv |-> ""]
    /\ maxResults \in 1 .. MaxPageSize
    /\ serverLogs = PatternLogs(MaxChangingTotal)
    /\ serverIssues = AllOk

\* runs in every environment
InitEnvironments ==
    /\ entry = "main" /\ variant \in {"detail", "summary"}
    /\ now = SmallNow
    /\ tz = "UTC" /\ env \in Environments /\ service = "steady"
    /\ argv = [week |-> <<>>, csv |-> ""]
    /\ maxResults = maxResultsDefault
    /\ serverLogs = PatternLogs(1)
    /\ serverIssues = AllOk

\* the summary variant run twice against the same small service
InitTwice ==
    /\ entry = "twice" /\ variant = "summary"
    /\ now = SmallNow
    /\ tz = "UTC" /\ env = AllSet /\ service = "steady"
    /\ argv = [week |-> <<>>, csv |-> "out.csv"]
    /\ maxResults = maxResultsDefault
    /\ \E n \in 0 .. MaxRerunLogs : \E f \in [1 .. n -> Authors \X IssueIds] :
           serverLogs = [k \in 1 .. n |-> ServerLog(k, f[k][1], f[k][2], SmallNow)]
    /\ serverIssues \in IssueWorlds

Init ==
    /\ \/ InitPaginator \/ InitLarge \/ InitSmallSummary \/ InitSmallDetail
       \/ InitDates \/ InitWeeks \/ InitLiterals \/ InitTwice \/ InitEnvironments
       \/ InitChanging \/ InitComments
    /\ InitProgram

\* ---------------------------------------------------------------- startup
\* !value of an environment variable
Falsy(value) == value = "undefined" \/ value = ""

MissingEnvironment == "Missing environment variables. Please check your .env file."

\* a startup check that looks at the email only
Misconfigured_EmailOnly(e) == Falsy(e.email)

\* if (!email || !apiToken || !jiraDomain)
Misconfigured(e) == Falsy(e.email) \/ Falsy(e.apiToken) \/ Falsy(e.jiraDomain)

\* module start: the environment check, console.error and process.exit(1),
\* or the client's construction
checkEnvironment ==
    /\ pc = "boot"
    /\ IF Misconfigured(env)
       THEN pc' = "exit" /\ err' = MissingEnvironment
       ELSE pc' = "start" /\ err' = err
    /\ UNCHANGED <<inputs, earlier, window, paging, requests, fetched, summed, output>>

\* ------------------------------------------------------- window resolution
\* main (detail variant): currentWeek, --week, getWeekRange(weekNumber, year)
resolveWeek ==
    /\ pc = "start" /\ variant = "detail"
    /\ LET currentWeek == getISOWeek(now)
           givenWeek == argv.week
           number == IF givenWeek # <<>> THEN givenWeek[1] ELSE currentWeek
           range == getWeekRange(number, getFullYear(now))
       IN  /\ weekNumber' = number
           /\ weekStart' = range.weekStart
           /\ weekEnd' = range.weekEnd
    /\ pc' = "page"
    /\ UNCHANGED <<inputs, earlier, paging, requests, fetched, summed, output, err>>

\* main (summary variant): getLastWeekRange()
resolveLastWeek ==
    /\ pc = "start" /\ variant = "summary"
    /\ LET range == getLastWeekRange(now)
       IN  /\ weekStart' = range.start
           /\ weekEnd' = range.end
    /\ pc' = "page"
    /\ UNCHANGED <<inputs, earlier, weekNumber, paging, requests, fetched, summed, output, err>>

\* ------------------------------------------------------------- paginator
\* a paginator that asks for one page too many when the total is a multiple
\* of the page size
MorePages_Inclusive(s, m, total) == s + m <= total

\* a paginator that tests the offset of this page, not of the next
MorePages_ThisOffset(s, m, total) == s < total

\* the paginators' test for another page
MorePages(s, m, total) == s + m < total

\* where the paginator's result goes
AfterPages == IF entry = "paginator" THEN "returned"
              ELSE IF variant = "detail" THEN "list" ELSE "chunk"

\* one call of the recursive paginator, from its request to its return or
\* its recursive call
PaginatorCall(res) ==
    /\ requests' = Append(requests,
          Req("page", startAt, maxResults, <<>>, res,
              [k \in 1 .. Len(res.body.values) |-> res.body.values[k].worklogId]))
    /\ IF Throws(res)
       THEN /\ pc' = "error"
            /\ err' = HttpError
            /\ UNCHANGED <<startAt, accum, worklogIds>>
       ELSE LET ids == [k \in 1 .. Len(res.body.values) |-> res.body.values[k].worklogId]
                newAccum == accum \o ids
            IN  IF MorePages(startAt, maxResults, res.body.total)
                THEN /\ startAt' = startAt + maxResults
                     /\ accum' = newAccum
                     /\ UNCHANGED <<pc, err, worklogIds>>
                ELSE /\ worklogIds' = newAccum
                     /\ accum' = newAccum
                     /\ pc' = AfterPages
                     /\ UNCHANGED <<startAt, err>>
    /\ UNCHANGED <<inputs, earlier, window, maxResults, fetched, summed, output>>

\* getWorklogUpdatesSince (detail variant)
getWorklogUpdatesSince ==
    /\ pc = "page" /\ variant = "detail"
    /\ \E ok \in BOOLEAN, body \in PageAnswers(service, serverLogs, startAt, maxResults) :
           PaginatorCall(Response(ok, body))

\* getWorklogUpdates (summary variant)
getWorklogUpdates ==
    /\ pc = "page" /\ variant = "summary"
    /\ \E ok \in BOOLEAN, body \in PageAnswers(service, serverLogs, startAt, maxResults) :
           PaginatorCall(Response(ok, body))

\* ------------------------------------------------------- detail variant
\* a filter that excludes both ends of the window
InWindow_Exclusive(log) ==
    Before(weekStart, log.started) /\ Before(log.started, weekEnd)

\* the time-window filter of the detail variant
InWindow(log) == isWithinInterval(log.started, weekStart, weekEnd)

\* a run that goes on with nothing to report
NothingFound_Never(filtered) == FALSE

\* if (!filteredWorklogs.length) throw
NothingFound(filtered) == Len(filtered) = 0

NoWorklogsError(week) == "No worklogs found for week " \o ToString(week)

\* getWorklogs(worklogIds), the filter and the empty check
getWorklogs ==
    /\ pc = "list" /\ variant = "detail"
    /\ \E ok \in BOOLEAN, reversed \in BOOLEAN :
         LET res == Response(ok, ServerList(serverLogs, worklogIds, reversed))
             logs == [k \in 1 .. Len(res.body) |-> normalizeDetail(res.body[k])]
             filtered == SelectSeq(logs, InWindow)
         IN  /\ requests' = Append(requests,
                   Req("batch", 0, 0, worklogIds, res,
                       [k \in 1 .. Len(res.body) |-> res.body[k].id]))
             /\ IF Throws(res)
                THEN /\ pc' = "error"
                     /\ err' = HttpError
                     /\ UNCHANGED <<allLogs, filteredWorklogs>>
                ELSE /\ allLogs' = logs
                     /\ filteredWorklogs' = filtered
                     /\ IF NothingFound(filtered)
                        THEN pc' = "error" /\ err' = NoWorklogsError(weekNumber)
                        ELSE pc' = "search" /\ err' = err
    /\ UNCHANGED <<inputs, earlier, window, paging, i, issues, summed, output>>

\* issues.find((issue) => issue.id === id): <<issue>> or <<>> (undefined)
find(found, id) ==
    LET hits == SelectSeq(found, LAMBDA issue : issue.id = id)
    IN  IF hits = <<>> THEN <<>> ELSE <<hits[1]>>

\* whether building the row of a worklog throws: issue.key on undefined
RowThrows(issue) == issue = <<>>

\* the detail row of one worklog and its issue
detailRow(log, issue) ==
    [author |-> log.author,
     issueKey |-> issue.key,
     summary |-> issue.fields.summary,
     parent |-> issue.fields.parent,
     issueComponents |-> JoinText([c \in 1 .. Len(issue.fields.components) |->
                                      <<issue.fields.components[c].name>>], ", "),
     hoursSpent |-> hoursSpentOf(parseDuration(log.timeSpent)),
     started |-> format(log.started, "Pp"),
     updated |-> format(log.updated, "Pp"),
     comment |-> log.comment]

\* the row loop: [rows, threw], the rows pushed before the first throw
detailRows(logs, found) ==
    LET bad == {k \in 1 .. Len(logs) : RowThrows(find(found, logs[k].issueId))}
        stop == IF bad = {} THEN Len(logs) + 1
                ELSE CHOOSE k \in bad : \A j \in bad : k <= j
    IN  [rows |-> [k \in 1 .. (stop - 1) |->
                      detailRow(logs[k], find(found, logs[k].issueId)[1])],
         threw |-> bad # {}]

Quoted(v) == [quoted |-> TRUE, value |-> v]

Bare(v) == [quoted |-> FALSE, value |-> v]

detailCsv(rows) ==
    <<"Author;IssueKey;Summary;Parent;IssueComponents;HoursSpent;Started;Updated;Comment">>
    \o [k \in 1 .. Len(rows) |->
          <<Quoted(rows[k].author), Quoted(rows[k].issueKey), Quoted(rows[k].summary),
            Quoted(rows[k].parent), Quoted(rows[k].issueComponents),
            Quoted(rows[k].hoursSpent), Quoted(rows[k].started),
            Quoted(rows[k].updated), Quoted(rows[k].comment)>>]

TypeError == "TypeError: Cannot read properties of undefined"

\* fetchIssues(uniqueIssueIds), the row loop, console.table and the CSV file
report ==
    /\ pc = "search" /\ variant = "detail"
    /\ \E ok \in BOOLEAN :
         LET uniqueIssueIds ==
                 Distinct([k \in 1 .. Len(filteredWorklogs) |-> filteredWorklogs[k].issueId])
             res == Response(ok, ServerSearch(serverIssues, uniqueIssueIds))
             built == detailRows(filteredWorklogs, res.body.issues)
             filename == "w" \o ToString(weekNumber) \o ".csv"
         IN  /\ requests' = Append(requests,
                   Req("search", 0, 0, uniqueIssueIds, res,
                       [k \in 1 .. Len(res.body.issues) |-> res.body.issues[k].id]))
             /\ IF Throws(res)
                THEN /\ pc' = "error"
                     /\ err' = HttpError
                     /\ UNCHANGED <<issues, output>>
                ELSE /\ issues' = res.body.issues
                     /\ tableRows' = built.rows
                     /\ IF built.threw
                        THEN /\ pc' = "error"
                             /\ err' = TypeError
                             /\ UNCHANGED <<table, csvFile>>
                        ELSE /\ table' = <<built.rows>>
                             /\ csvFile' = <<[path |-> IF argv.csv # "" THEN argv.csv
                                                       ELSE filename,
                                              content |-> detailCsv(built.rows)]>>
                             /\ pc' = "done"
                             /\ err' = err
    /\ UNCHANGED <<inputs, earlier, window, paging, i, allLogs, filteredWorklogs, summed>>

\* ------------------------------------------------------ summary variant
\* a chunk loop that runs its body once before it tests the list's length
getWorklogDetails_AtLeastOnce ==
    /\ pc = "chunk" /\ variant = "summary"
    /\ i < Len(worklogIds) \/ (i = 0 /\ \A k \in 1 .. Len(requests) : requests[k].kind # "batch")
    /\ \E ok \in BOOLEAN, reversed \in BOOLEAN :
         LET chunk == slice(worklogIds, i, i + chunkSize)
             res == Response(ok, ServerList(serverLogs, chunk, reversed))
             logs == [k \in 1 .. Len(res.body) |-> normalizeSummary(res.body[k])]
         IN  /\ requests' = Append(requests,
                   Req("batch", 0, 0, chunk, res,
                       [k \in 1 .. Len(res.body) |-> res.body[k].id]))
             /\ IF Throws(res)
                THEN /\ pc' = "error"
                     /\ err' = HttpError
                     /\ UNCHANGED <<i, allLogs>>
                ELSE /\ allLogs' = allLogs \o logs
                     /\ i' = i + chunkSize
                     /\ UNCHANGED <<pc, err>>
    /\ UNCHANGED <<inputs, earlier, window, paging, filteredWorklogs, issues, summed, output>>

\* one iteration of the chunk loop: slice, getWorklogDetails, push
getWorklogDetails ==
    /\ pc = "chunk" /\ variant = "summary"
    /\ i < Len(worklogIds)
    /\ \E ok \in BOOLEAN, reversed \in BOOLEAN :
         LET chunk == slice(worklogIds, i, i + chunkSize)
             res == Response(ok, ServerList(serverLogs, chunk, reversed))
             logs == [k \in 1 .. Len(res.body) |-> normalizeSummary(res.body[k])]
         IN  /\ requests' = Append(requests,
                   Req("batch", 0, 0, chunk, res,
                       [k \in 1 .. Len(res.body) |-> res.body[k].id]))
             /\ IF Throws(res)
                THEN /\ pc' = "error"
                     /\ err' = HttpError
                     /\ UNCHANGED <<i, allLogs>>
                ELSE /\ allLogs' = allLogs \o logs
                     /\ i' = i + chunkSize
                     /\ UNCHANGED <<pc, err>>
    /\ UNCHANGED <<inputs, earlier, window, paging, filteredWorklogs, issues, summed, output>>

\* position of an author's entry in the grouping object, 0 when it has none
AuthorIndex(acc, author) ==
    IF \E k \in 1 .. Len(acc) : acc[k].author = author
    THEN CHOOSE k \in 1 .. Len(acc) : acc[k].author = author
    ELSE 0

\* a reducer that keeps the last worklog's minutes instead of the sum
groupLog_Overwrite(acc, log) ==
    LET author == log.author
        issueId == log.issueKey
        acc1 == IF AuthorIndex(acc, author) = 0
                THEN Append(acc, [author |-> author, totals |-> <<>>])
                ELSE acc
        j == AuthorIndex(acc1, author)
        totals == acc1[j].totals
    IN  [acc1 EXCEPT ![j].totals =
            [id \in (DOMAIN totals) \cup {issueId} |->
                IF id = issueId THEN parseTimeSpent(log.timeSpent) ELSE totals[id]]]

\* the reducer of groupedByAuthorAndIssue: the object's author keys keep
\* their insertion order, acc[author][issueId] += minutes
groupLog(acc, log) ==
    LET author == log.author
        issueId == log.issueKey
        timeSpentMinutes == parseTimeSpent(log.timeSpent)
        acc1 == IF AuthorIndex(acc, author) = 0
                THEN Append(acc, [author |-> author, totals |-> <<>>])
                ELSE acc
        j == AuthorIndex(acc1, author)
        totals == acc1[j].totals
        current == IF issueId \in DOMAIN totals THEN OrZero(totals[issueId]) ELSE Num(0)
    IN  [acc1 EXCEPT ![j].totals =
            [id \in (DOMAIN totals) \cup {issueId} |->
                IF id = issueId THEN Plus(current, timeSpentMinutes) ELSE totals[id]]]

RECURSIVE reduce(_, _)
\* allLogs.reduce(groupLog, {}): a left fold; the list is folded in two
\* halves, the first before the second
reduce(logs, acc) ==
    IF logs = <<>> THEN acc
    ELSE IF Len(logs) = 1 THEN groupLog(acc, logs[1])
    ELSE LET half == Len(logs) \div 2
             first == reduce(SubSeq(logs, 1, half), acc)
         IN  IF first = <<>> THEN reduce(SubSeq(logs, half + 1, Len(logs)), <<>>)
             ELSE reduce(SubSeq(logs, half + 1, Len(logs)), first)

RECURSIVE Pairs(_)
\* the (author, issueId) pairs in the order the two for-in loops visit them:
\* authors in insertion order, integer-like issue ids ascending
Pairs(grouped) ==
    IF grouped = <<>> THEN <<>>
    ELSE LET ids == SortedSeq(DOMAIN grouped[1].totals)
         IN  [k \in 1 .. Len(ids) |->
                 [author |-> grouped[1].author, issueId |-> ids[k],
                  totalTime |-> grouped[1].totals[ids[k]]]]
             \o Pairs(Tail(grouped))

\* the end of the chunk loop and the grouping
group ==
    /\ pc = "chunk" /\ variant = "summary"
    /\ ~(i < Len(worklogIds))
    /\ groupedByAuthorAndIssue' = reduce(allLogs, <<>>)
    /\ pc' = "rows"
    /\ UNCHANGED <<inputs, earlier, window, paging, requests, fetched, ticketCache, output, err>>

\* fetchTicketKey: if (ticketCache[issueId]) return ticketCache[issueId]
CacheHit(cache, issueId) == issueId \in DOMAIN cache /\ cache[issueId] # ""

\* one iteration of the row loop whose fetchTicketKey answers from the cache
rowFromCache ==
    /\ pc = "rows" /\ variant = "summary"
    /\ Len(tableRows) < Len(Pairs(groupedByAuthorAndIssue))
    /\ LET pair == Pairs(groupedByAuthorAndIssue)[Len(tableRows) + 1]
       IN  /\ CacheHit(ticketCache, pair.issueId)
           /\ tableRows' = Append(tableRows,
                 [author |-> pair.author, ticket |-> ticketCache[pair.issueId],
                  totalTimeSpentMinutes |-> pair.totalTime])
    /\ UNCHANGED <<inputs, earlier, pc, window, paging, requests, fetched, summed, table, csvFile, err>>

\* one iteration of the row loop whose fetchTicketKey asks the service
rowFromService ==
    /\ pc = "rows" /\ variant = "summary"
    /\ Len(tableRows) < Len(Pairs(groupedByAuthorAndIssue))
    /\ LET pair == Pairs(groupedByAuthorAndIssue)[Len(tableRows) + 1]
       IN  /\ ~CacheHit(ticketCache, pair.issueId)
           /\ \E ok \in BOOLEAN :
                LET res == Response(ok /\ ServerIssueFound(serverIssues, pair.issueId),
                                    ServerIssue(serverIssues[pair.issueId], pair.issueId))
                    issueData == res.body
                IN  /\ requests' = Append(requests,
                          Req("lookup", 0, 0, <<pair.issueId>>, res, <<pair.issueId>>))
                    /\ IF Throws(res)
                       THEN /\ pc' = "error"
                            /\ err' = HttpError
                            /\ UNCHANGED <<ticketCache, tableRows>>
                       ELSE /\ ticketCache' =
                                 [id \in (DOMAIN ticketCache) \cup {pair.issueId} |->
                                     IF id = pair.issueId THEN issueData.key
                                     ELSE ticketCache[id]]
                            /\ tableRows' = Append(tableRows,
                                 [author |-> pair.author, ticket |-> issueData.key,
                                  totalTimeSpentMinutes |-> pair.totalTime])
                            /\ UNCHANGED <<pc, err>>
    /\ UNCHANGED <<inputs, earlier, window, paging, fetched, groupedByAuthorAndIssue, table, csvFile>>

summaryCsv(rows) ==
    <<"Author,Ticket,TotalTimeSpentMinutes">>
    \o [k \in 1 .. Len(rows) |->
          <<Quoted(rows[k].author), Quoted(rows[k].ticket),
            Bare(rows[k].totalTimeSpentMinutes)>>]

\* a row loop that prints the table as soon as it holds a row
summarize_InsideLoop ==
    /\ pc = "rows" /\ variant = "summary"
    /\ Len(tableRows) >= 1 /\ table = <<>>
    /\ table' = <<tableRows>>
    /\ csvFile' = IF argv.csv # ""
                  THEN <<[path |-> argv.csv, content |-> summaryCsv(tableRows)]>>
                  ELSE <<>>
    /\ pc' = IF Len(tableRows) < Len(Pairs(groupedByAuthorAndIssue)) THEN pc ELSE "done"
    /\ UNCHANGED <<inputs, earlier, window, paging, requests, fetched, summed, tableRows, err>>

\* the end of the row loop, console.table and the CSV file when --csv is given
summarize ==
    /\ pc = "rows" /\ variant = "summary"
    /\ ~(Len(tableRows) < Len(Pairs(groupedByAuthorAndIssue)))
    /\ table' = <<tableRows>>
    /\ csvFile' = IF argv.csv # ""
                  THEN <<[path |-> argv.csv, content |-> summaryCsv(tableRows)]>>
                  ELSE <<>>
    /\ pc' = "done"
    /\ UNCHANGED <<inputs, earlier, window, paging, requests, fetched, summed, tableRows, err>>

\* ---------------------------------------------------------------- runs
\* what a finished run asked and emitted
RunRecord ==
    [weekStart |-> weekStart, weekEnd |-> weekEnd, requests |-> requests,
     tableRows |-> tableRows, table |-> table, csvFile |-> csvFile]

\* a second run that finds the first run's issue-key cache
rerun_KeepCache ==
    /\ entry = "twice" /\ pc = "done" /\ earlier = <<>>
    /\ earlier' = <<RunRecord>>
    /\ pc' = "boot"
    /\ weekNumber' = 0 /\ weekStart' = Instant(0, 0) /\ weekEnd' = Instant(0, 0)
    /\ startAt' = 0 /\ accum' = <<>> /\ requests' = <<>> /\ worklogIds' = <<>>
    /\ i' = 0 /\ allLogs' = <<>> /\ filteredWorklogs' = <<>> /\ issues' = <<>>
    /\ groupedByAuthorAndIssue' = <<>> /\ ticketCache' = ticketCache
    /\ tableRows' = <<>> /\ table' = <<>> /\ csvFile' = <<>> /\ err' = NoError
    /\ UNCHANGED <<inputs, maxResults>>

\* the program started again after a run has completed: a new process, whose
\* variables (the cache among them) are created anew
rerun ==
    /\ entry = "twice" /\ pc = "done" /\ earlier = <<>>
    /\ earlier' = <<RunRecord>>
    /\ pc' = "boot"
    /\ weekNumber' = 0 /\ weekStart' = Instant(0, 0) /\ weekEnd' = Instant(0, 0)
    /\ startAt' = 0 /\ accum' = <<>> /\ requests' = <<>> /\ worklogIds' = <<>>
    /\ i' = 0 /\ allLogs' = <<>> /\ filteredWorklogs' = <<>> /\ issues' = <<>>
    /\ groupedByAuthorAndIssue' = <<>> /\ ticketCache' = <<>>
    /\ tableRows' = <<>> /\ table' = <<>> /\ csvFile' = <<>> /\ err' = NoError
    /\ UNCHANGED <<inputs, maxResults>>

Next ==
    \/ checkEnvironment
    \/ resolveWeek
    \/ resolveLastWeek
    \/ getWorklogUpdatesSince
    \/ getWorklogUpdates
    \/ getWorklogs
    \/ report
    \/ getWorklogDetails
    \/ group
    \/ rowFromCache
    \/ rowFromService
    \/ summarize
    \/ rerun

Spec == Init /\ [][Next]_vars

\* ============================================================== claims
OfKind(kind) == SelectSeq(requests, LAMBDA r : r.kind = kind)

PageReqs == OfKind("page")

BatchReqs == OfKind("batch")

SearchReqs == OfKind("search")

LookupReqs == OfKind("lookup")

Ceil(a, b) == (a + b - 1) \div b

LastReq == requests[Len(requests)]

\* the paginator has returned its list
PagesDone == pc \in {"returned", "list", "chunk", "search", "rows", "done"}
             \/ (pc = "error" /\ LastReq.kind # "page")

\* C1: against a service that reports a constant total T and answers offset s
\* with the ids at positions [s, s+M), the paginator issues its page requests
\* at startAt = 0, M, 2M, ... in that order, never more than max(1, ceil(T/M));
\* once it has returned it has issued exactly max(1, ceil(T/M)) of them and
\* its result is the T ids of the service, each once, in order.
C1_PaginatorPages ==
    service = "steady" =>
        LET T == Len(serverLogs)
            M == maxResults
            expected == IF T = 0 THEN 1 ELSE Ceil(T, M)
        IN  /\ Len(PageReqs) <= expected
            /\ \A k \in 1 .. Len(PageReqs) :
                  PageReqs[k].startAt = (k - 1) * M /\ PageReqs[k].maxResults = M
            /\ PagesDone =>
                  /\ Len(PageReqs) = expected
                  /\ worklogIds = [p \in 1 .. T |-> serverLogs[p].id]
                  /\ \A p, q \in 1 .. Len(worklogIds) :
                        worklogIds[p] = worklogIds[q] => p = q

\* the spec's example: total 250, page size 100, three requests, 250 ids
C1_Witness ==
    /\ Len(serverLogs) = 250 /\ maxResults = 100 /\ PagesDone
    /\ Len(PageReqs) = 3 /\ PageReqs[3].startAt = 200
    /\ Len(worklogIds) = 250

\* C2 (as claimed): in the detail variant, when the search answered and a
\* filtered worklog's issue is absent from its result, the run still completes
\* with one row per filtered worklog and the report emitted.
C2_MissingIssueTolerated ==
    (/\ variant = "detail"
     /\ SearchReqs # <<>> /\ SearchReqs[1].ok
     /\ \E k \in 1 .. Len(filteredWorklogs) :
           filteredWorklogs[k].issueId \notin Range(SearchReqs[1].returned))
    => (/\ pc = "done"
        /\ table # <<>> /\ Len(table[1]) = Len(filteredWorklogs)
        /\ csvFile # <<>>)

\* C3 (as claimed): in the summary variant, the lookup of an issue the service
\* does not hold raises no error: the run goes on to its rows and its report.
C3_MissingIssueStillReported ==
    (/\ variant = "summary"
     /\ LookupReqs # <<>>
     /\ serverIssues[LookupReqs[Len(LookupReqs)].ids[1]] = "missing")
    => pc # "error"

\* C4: a request that received a non-success response is the run's last
\* request (not retried, none after it), the run is in its error state with
\* the client's error logged, and neither the table nor the CSV was emitted.
C4_FailureIsFatal ==
    \A k \in 1 .. Len(requests) :
        ~requests[k].ok =>
            /\ k = Len(requests)
            /\ pc = "error" /\ err = HttpError
            /\ table = <<>> /\ csvFile = <<>>

\* a request failed after at least one had succeeded
C4_Witness ==
    /\ Len(requests) >= 2 /\ ~LastReq.ok /\ requests[1].ok
    /\ pc = "error"

\* C5 (as claimed): over a summary run at most one GET /issue/{id} is issued
\* per distinct issue id, whatever key the service returns.
C5_OneLookupPerIssue ==
    variant = "summary" =>
        \A id \in IssueIds :
            Cardinality({k \in 1 .. Len(LookupReqs) : LookupReqs[k].ids = <<id>>}) <= 1

RECURSIVE SumSeq(_)
SumSeq(s) ==
    IF s = <<>> THEN Num(0)
    ELSE IF Len(s) = 1 THEN s[1]
    ELSE Plus(SumSeq(SubSeq(s, 1, Len(s) \div 2)),
              SumSeq(SubSeq(s, Len(s) \div 2 + 1, Len(s))))

\* the minutes of one fetched worklog
MinutesOf(log) == parseTimeSpent(log.timeSpent)

\* the minutes of the fetched worklogs of one author on one issue
PairMinutes(author, issueId) ==
    LET mine == SelectSeq(allLogs, LAMBDA l : l.author = author /\ l.issueKey = issueId)
    IN  SumSeq([k \in 1 .. Len(mine) |-> MinutesOf(mine[k])])

\* C6: a summary run that completes has printed exactly one row per distinct
\* (author, issueId) pair of the fetched worklogs and no other row, and each
\* row's total is the sum of the minutes of the worklogs of its pair.
C6_OneRowPerPair ==
    (variant = "summary" /\ pc = "done") =>
        LET rows == table[1]
            pairs == {<<allLogs[k].author, allLogs[k].issueKey>> : k \in 1 .. Len(allLogs)}
        IN  /\ Len(rows) = Cardinality(pairs)
            /\ \A p \in pairs :
                  \E k \in 1 .. Len(rows) :
                      /\ rows[k].author = p[1]
                      /\ rows[k].ticket = KeyOf(serverIssues[p[2]], p[2])
                      /\ rows[k].totalTimeSpentMinutes = PairMinutes(p[1], p[2])

\* the spec's example: 20 and 40 minutes of one author on one issue make one
\* row of 60, a worklog of another author on that issue makes a second row
C6_Witness ==
    /\ variant = "summary" /\ pc = "done" /\ Len(allLogs) = 3
    /\ Len(table[1]) = 2
    /\ table[1][1].totalTimeSpentMinutes = Num(60)
    /\ table[1][1].author # table[1][2].author
    /\ table[1][1].ticket = table[1][2].ticket

RECURSIVE Concat(_)
Concat(ss) == IF ss = <<>> THEN <<>> ELSE ss[1] \o Concat(Tail(ss))

\* the batch stage is over
BatchesDone == pc \in {"search", "rows", "done"}
               \/ (pc = "error" /\ err # HttpError)
               \/ (pc = "error" /\ LastReq.kind \in {"search", "lookup"})

\* C7: the summary variant sends the ids in consecutive chunks of 100, the
\* k-th request carrying positions [100(k-1), min(100k, N)) of the id list,
\* ceil(N/100) requests in all, and its worklog list is the responses in
\* request order, each in the service's order; the detail variant sends one
\* request carrying all N ids.
C7_Batches ==
    LET N == Len(worklogIds)
        answered == SelectSeq(BatchReqs, LAMBDA r : r.ok)
    IN  /\ [k \in 1 .. Len(allLogs) |-> allLogs[k].id]
              = Concat([k \in 1 .. Len(answered) |-> answered[k].returned])
        /\ variant = "summary" =>
              /\ \A k \in 1 .. Len(BatchReqs) :
                    /\ BatchReqs[k].ids =
                          [p \in 1 .. (IF 100 * k <= N THEN 100 ELSE N - 100 * (k - 1)) |->
                              worklogIds[100 * (k - 1) + p]]
                    /\ Len(BatchReqs[k].ids) \in 1 .. 100
              /\ BatchesDone => Len(BatchReqs) = Ceil(N, 100)
        /\ variant = "detail" =>
              /\ Len(BatchReqs) <= 1
              /\ \A k \in 1 .. Len(BatchReqs) : BatchReqs[k].ids = worklogIds
              /\ BatchesDone => Len(BatchReqs) = 1

\* 250 ids went out in three requests, one of them answered in another order
C7_Witness ==
    /\ variant = "summary" /\ pc = "rows" /\ Len(worklogIds) = 250
    /\ Len(BatchReqs) = 3 /\ Len(BatchReqs[3].ids) = 50
    /\ BatchReqs[2].returned # BatchReqs[2].ids
    /\ Len(allLogs) = 250

\* C8: the report of a detail run holds a row for a fetched worklog exactly
\* when weekStart <= started <= weekEnd, both ends included.
C8_RowsAreTheWindow ==
    (variant = "detail" /\ pc = "done") =>
        LET rows == table[1]
            inside == {k \in 1 .. Len(allLogs) :
                          /\ ~Before(allLogs[k].started, weekStart)
                          /\ ~Before(weekEnd, allLogs[k].started)}
        IN  /\ Len(rows) = Cardinality(inside)
            /\ \A k \in 1 .. Len(allLogs) :
                  (k \in inside) <=>
                      \E r \in 1 .. Len(rows) : rows[r].updated.date = allLogs[k].updated

\* a report whose worklogs started at weekStart, at weekEnd and after weekEnd
C8_Witness ==
    /\ variant = "detail" /\ pc = "done" /\ Len(allLogs) = 3
    /\ \E a, b, c \in 1 .. 3 :
          /\ allLogs[a].started = weekStart
          /\ allLogs[b].started = weekEnd
          /\ Before(weekEnd, allLogs[c].started)
    /\ Len(table[1]) = 2

\* C9: a detail run whose batch was answered and none of whose worklogs lies
\* in the window ends in its error state with the message naming the week,
\* with no issue search issued, no table printed and no CSV written.
C9_EmptyIsFatal ==
    (/\ variant = "detail"
     /\ BatchReqs # <<>> /\ BatchReqs[1].ok
     /\ \A k \in 1 .. Len(allLogs) :
           Before(allLogs[k].started, weekStart) \/ Before(weekEnd, allLogs[k].started))
    => (/\ pc = "error"
        /\ err = "No worklogs found for week " \o ToString(weekNumber)
        /\ SearchReqs = <<>>
        /\ table = <<>> /\ csvFile = <<>>)

\* worklogs were fetched and all of them lie outside the window
C9_Witness ==
    /\ variant = "detail" /\ pc = "error" /\ Len(allLogs) >= 2
    /\ BatchReqs # <<>> /\ BatchReqs[1].ok
    /\ \E k \in 1 .. Len(allLogs) : Before(allLogs[k].started, weekStart)
    /\ \E k \in 1 .. Len(allLogs) : Before(weekEnd, allLogs[k].started)
    /\ \A k \in 1 .. Len(allLogs) :
           Before(allLogs[k].started, weekStart) \/ Before(weekEnd, allLogs[k].started)

\* the run has resolved its window
Resolved == pc \notin {"boot", "exit", "start"}

\* C10 (as claimed): without --week the detail variant resolves the Monday
\* to Sunday week that contains the current date, on every date.
C10_CurrentWeekResolved ==
    (variant = "detail" /\ entry = "main" /\ Resolved /\ argv.week = <<>>) =>
        /\ weekStart = startOfISOWeek(now)
        /\ weekEnd = endOfISOWeek(now)
        /\ AtOrBefore(weekStart, now) /\ AtOrBefore(now, weekEnd)

\* the Monday of the week that contains 4 January of year y
Week1Monday(y) ==
    CHOOSE d \in (newDate(y, 0, 4) - 6) .. newDate(y, 0, 4) : (d + 3) % 7 = 0

\* w is an ISO week number of ISO year y
ValidWeek(w, y) == w >= 1 /\ Week1Monday(y) + 7 * (w - 1) < Week1Monday(y + 1)

\* weekEnd.getTime() - weekStart.getTime(), in milliseconds
WeekSpanMs == (getTime(tz, weekEnd).day - getTime(tz, weekStart).day) * 24 * HourMs
              + getTime(tz, weekEnd).ms - getTime(tz, weekStart).ms

\* a detail run has resolved the window of a --week that is valid in its year
ValidWeekResolved ==
    /\ variant = "detail" /\ entry = "main" /\ Resolved /\ argv.week # <<>>
    /\ ValidWeek(argv.week[1], getFullYear(now))

\* the window is the Monday 00:00:00.000 to Sunday 23:59:59.999 of week w
\* counted from the Monday-Sunday week that contains 4 January of y
IsWeekOf(w, y) ==
    /\ weekNumber = w
    /\ weekStart.ms = 0 /\ (weekStart.day + 3) % 7 = 0
    /\ weekEnd.ms = 24 * HourMs - 1 /\ (weekEnd.day + 4) % 7 = 0
    /\ weekEnd.day - weekStart.day = 6
    /\ weekStart.day = Week1Monday(y) + 7 * (w - 1)
    /\ weekStart.day < Week1Monday(y + 1)

\* C11 (as claimed): for every year y and every ISO week number w valid in y,
\* getWeekRange(w, y) gives the Monday 00:00:00.000 to the following Sunday
\* 23:59:59.999 of ISO week w of y, and weekEnd - weekStart is exactly
\* 6 days 23:59:59.999.
C11_WeekSpanExact ==
    ValidWeekResolved =>
        /\ IsWeekOf(argv.week[1], getFullYear(now))
        /\ WeekSpanMs = 7 * 24 * HourMs - 1

\* C11 (amended): for every year y and every ISO week number w valid in y,
\* getWeekRange(w, y) gives the local Monday 00:00:00.000 to the following
\* Sunday 23:59:59.999 of ISO week w of y; weekEnd - weekStart is exactly
\* 6 days 23:59:59.999 unless the local clock changes within that week: it is
\* an hour less in the week the summer time begins and an hour more in the
\* week it ends.
C11_WeekRange ==
    ValidWeekResolved =>
        LET y == getFullYear(now)
        IN  /\ IsWeekOf(argv.week[1], y)
            /\ WeekSpanMs = 7 * 24 * HourMs - 1
                  + (CASE tz = "UTC" -> 0
                       [] tz # "UTC" /\ weekEnd.day = LastSunday(y, 2) -> 0 - HourMs
                       [] tz # "UTC" /\ weekEnd.day = LastSunday(y, 9) -> HourMs
                       [] OTHER -> 0)

\* week 13 of 2024 in a zone with summer time: 2024-03-25 to 2024-03-31, an
\* hour short of 6 days 23:59:59.999
C11_Witness ==
    /\ variant = "detail" /\ pc = "page" /\ argv.week = <<13>>
    /\ getFullYear(now) = 2024 /\ tz = "Europe/Amsterdam"
    /\ weekStart = Instant(newDate(2024, 2, 25), 0)
    /\ weekEnd = Instant(newDate(2024, 2, 31), 24 * HourMs - 1)
    /\ WeekSpanMs = 7 * 24 * HourMs - 1 - HourMs

\* week 53 of 2020 was resolved: 2020-12-28 to 2021-01-03
C11_WitnessWeek53 ==
    /\ variant = "detail" /\ pc = "page" /\ argv.week = <<53>>
    /\ getFullYear(now) = 2020
    /\ weekStart = Instant(newDate(2020, 11, 28), 0)
    /\ weekEnd = Instant(newDate(2021, 0, 3), 24 * 60 * 60 * 1000 - 1)

\* a summary run over one worklog has grouped it
OneLogGrouped ==
    /\ variant = "summary" /\ pc \in {"rows", "done"} /\ Len(allLogs) = 1

\* the minutes the run counted for its only worklog
CountedMinutes == groupedByAuthorAndIssue[1].totals[allLogs[1].issueKey]

\* the literal without the white space around it
Stripped(lit) ==
    LET inked == {k \in 1 .. Len(lit) : lit[k] # " "}
        first == CHOOSE f \in inked : \A j \in inked : f <= j
        last == CHOOSE l \in inked : \A j \in inked : j <= l
    IN  IF inked = {} THEN <<>> ELSE [k \in 1 .. (last - first + 1) |-> lit[k - 1 + first]]

\* a literal that is a decimal number followed by one character
SimpleLiteral(lit) ==
    /\ Len(lit) >= 2
    /\ \A k \in 1 .. (Len(lit) - 1) : \E d \in 0 .. 9 : lit[k] = ToString(d)

RECURSIVE NumberOf(_)
\* the number a simple literal begins with
NumberOf(lit) ==
    IF Len(lit) = 1 THEN 0
    ELSE LET rest == NumberOf(Tail(lit))
             d == CHOOSE d \in 0 .. 9 : lit[1] = ToString(d)
             RECURSIVE Pow10(_)
             Pow10(n) == IF n = 0 THEN 1 ELSE 10 * Pow10(n - 1)
         IN  d * Pow10(Len(lit) - 2) + rest

\* C12: the summary variant counts a literal by its trailing unit: <n>m is n
\* minutes, <n>h is 60 n, <n>d is 480 n (white space around the literal
\* ignored), and a literal that ends in anything else, or is empty, is 0
\* minutes, with no error raised; "2h" is 120, "30m" is 30, "1d" is 480 and
\* "garbage" is 0.
C12_ParseTimeSpent ==
    OneLogGrouped =>
        LET lit == Stripped(allLogs[1].timeSpent)
            unit == IF lit = <<>> THEN "" ELSE lit[Len(lit)]
        IN  /\ err = ""
            /\ (SimpleLiteral(lit) /\ unit = "m") =>
                  CountedMinutes = [nan |-> FALSE, value |-> NumberOf(lit)]
            /\ (SimpleLiteral(lit) /\ unit = "h") =>
                  CountedMinutes = [nan |-> FALSE, value |-> 60 * NumberOf(lit)]
            /\ (SimpleLiteral(lit) /\ unit = "d") =>
                  CountedMinutes = [nan |-> FALSE, value |-> 480 * NumberOf(lit)]
            /\ unit \notin {"m", "h", "d"} =>
                  CountedMinutes = [nan |-> FALSE, value |-> 0]
            /\ lit = <<"2", "h">> => CountedMinutes.value = 120
            /\ lit = <<"3", "0", "m">> => CountedMinutes.value = 30
            /\ lit = <<"1", "d">> => CountedMinutes.value = 480
            /\ lit = <<"g", "a", "r", "b", "a", "g", "e">> => CountedMinutes.value = 0

\* a worklog of "1d" was reported with 480 minutes
C12_Witness ==
    /\ variant = "summary" /\ pc = "done" /\ Len(allLogs) = 1
    /\ allLogs[1].timeSpent = <<"1", "d">>
    /\ table[1][1].totalTimeSpentMinutes = [nan |-> FALSE, value |-> 480]

\* C13 (as claimed): in both variants the CSV a run writes is one header row
\* followed by exactly one data row per report row, in report-row order, and
\* every field of every data row is enclosed in double quotes.
C13_CsvRowsQuoted ==
    csvFile # <<>> =>
        LET lines == csvFile[1].content
            rows == table[1]
        IN  /\ Len(lines) = 1 + Len(rows)
            /\ lines[1] = IF variant = "detail"
                  THEN "Author;IssueKey;Summary;Parent;IssueComponents;HoursSpent;Started;Updated;Comment"
                  ELSE "Author,Ticket,TotalTimeSpentMinutes"
            /\ \A k \in 1 .. Len(rows) :
                  /\ lines[k + 1][1].value = rows[k].author
                  /\ lines[k + 1][2].value =
                        IF variant = "detail" THEN rows[k].issueKey ELSE rows[k].ticket
                  /\ \A f \in 1 .. Len(lines[k + 1]) : lines[k + 1][f].quoted

\* the k-th response of this run is the k-th response of the run before
SameResponse(k) ==
    /\ k <= Len(earlier[1].requests)
    /\ requests[k].ok = earlier[1].requests[k].ok
    /\ requests[k].returned = earlier[1].requests[k].returned

SomeMissing == \E name \in {"email", "apiToken", "jiraDomain"} : env[name] \in {"undefined", ""}

\* C15: in both variants, when one of the three required environment
\* variables is missing or empty at startup, the process exits with the
\* configuration error logged and without ever issuing a network request.
C15_NoRequestWithoutEnv ==
    (entry = "main" /\ SomeMissing) =>
        /\ requests = <<>>
        /\ pc \in {"boot", "exit"}
        /\ pc = "exit" => err = "Missing environment variables. Please check your .env file."
        /\ table = <<>> /\ csvFile = <<>>

\* the process has exited because only the API token is empty
C15_Witness ==
    /\ entry = "main" /\ pc = "exit" /\ requests = <<>>
    /\ env.email = "value" /\ env.apiToken = "" /\ env.jiraDomain = "value"

\* the largest total reported so far
LargestTotal ==
    IF PageReqs = <<>> THEN 0
    ELSE CHOOSE t \in {PageReqs[k].total : k \in 1 .. Len(PageReqs)} :
             \A k \in 1 .. Len(PageReqs) : PageReqs[k].total <= t

\* C16: against a service whose reported total changes between the page
\* requests, the paginator asks offsets 0, M, 2M, ... in ascending order,
\* each once; it went on after a page exactly when that page's startAt + M
\* was below that page's total; and with every total at most B it issues at
\* most max(1, ceil(B / M)) requests.
C16_ChangingTotals ==
    (service = "changing") =>
        LET M == maxResults
            n == Len(PageReqs)
        IN  /\ \A k \in 1 .. n : PageReqs[k].startAt = (k - 1) * M
            /\ \A k \in 1 .. (n - 1) :
                  PageReqs[k].ok /\ PageReqs[k].startAt + M < PageReqs[k].total
            /\ (n >= 1 /\ pc = "returned") =>
                  ~(PageReqs[n].startAt + M < PageReqs[n].total)
            /\ (n >= 1 /\ PageReqs[n].ok
                    /\ PageReqs[n].startAt + M < PageReqs[n].total) => pc = "page"
            /\ n <= (IF LargestTotal = 0 THEN 1 ELSE Ceil(LargestTotal, M))
            /\ n <= (IF Len(serverLogs) = 0 THEN 1 ELSE Ceil(Len(serverLogs), M))

\* the total shrank from 5 to 1 after the first page of 2 and the paginator
\* returned after its second request, with fewer ids than the first total
C16_Witness ==
    /\ service = "changing" /\ pc = "returned" /\ maxResults = 2
    /\ Len(PageReqs) = 2
    /\ PageReqs[1].total = 5 /\ PageReqs[2].total = 1
    /\ worklogIds = PageReqs[1].returned

\* the phase of a request: 1 worklog page, 2 worklog batch, 3 issue resolution
Phase(r) == CASE r.kind = "page" -> 1 [] r.kind = "batch" -> 2 [] OTHER -> 3

\* C17: the requests of a run form one sequence, each issued after the
\* response to the one before (only the last can have failed); every page
\* request precedes every batch request, and the batches begin only when the
\* paginator has its whole list; every batch request precedes every issue
\* resolution request (search or per-id lookup), and those begin only when
\* every id has been sent in a batch; the table and the CSV are emitted only
\* at the end of the run, after the last issue resolution response.
C17_PhasesInOrder ==
    entry # "paginator" =>
        /\ \A k \in 1 .. (Len(requests) - 1) :
              requests[k].ok /\ Phase(requests[k]) <= Phase(requests[k + 1])
        /\ BatchReqs # <<>> =>
              /\ PageReqs # <<>>
              /\ ~(PageReqs[Len(PageReqs)].startAt + maxResults
                      < PageReqs[Len(PageReqs)].total)
              /\ worklogIds = Concat([k \in 1 .. Len(PageReqs) |-> PageReqs[k].returned])
        /\ (SearchReqs # <<>> \/ LookupReqs # <<>>) =>
              /\ \A k \in 1 .. Len(BatchReqs) : BatchReqs[k].ok
              /\ Concat([k \in 1 .. Len(BatchReqs) |-> BatchReqs[k].ids]) = worklogIds
        /\ (table # <<>> \/ csvFile # <<>>) =>
              /\ pc = "done"
              /\ \A k \in 1 .. Len(requests) : requests[k].ok
              /\ variant = "detail" => Len(SearchReqs) = 1
              /\ variant = "summary" =>
                    /\ Len(tableRows) = Len(Pairs(groupedByAuthorAndIssue))
                    /\ \A id \in {allLogs[k].issueKey : k \in 1 .. Len(allLogs)} :
                          \E k \in 1 .. Len(LookupReqs) : LookupReqs[k].ids = <<id>>

\* a summary run over 250 worklogs has emitted its report after three page
\* requests, three batch requests and the lookups of both issues
C17_Witness ==
    /\ variant = "summary" /\ pc = "done" /\ table # <<>> /\ csvFile # <<>>
    /\ Len(PageReqs) = 3 /\ Len(BatchReqs) = 3 /\ Len(LookupReqs) >= 2
    /\ requests = PageReqs \o BatchReqs \o LookupReqs

\* the Monday of the Monday-Sunday week that contains the day of now
MondayOfNow == CHOOSE d \in (now.day - 6) .. now.day : (d + 3) % 7 = 0

\* C18: at every instant now, the summary variant's window starts at local
\* midnight of the Monday seven days before the Monday of the week containing
\* now and ends at 23:59:59.999 of the Sunday six days later, the day before
\* the current week's Monday; start <= end and end < now, on every weekday of
\* now (Sunday being the last day of its week) and across month and year
\* boundaries.
C18_LastWeek ==
    (variant = "summary" /\ entry # "paginator" /\ Resolved) =>
        /\ weekStart = [day |-> MondayOfNow - 7, ms |-> 0]
        /\ weekEnd = [day |-> MondayOfNow - 1, ms |-> 24 * 60 * 60 * 1000 - 1]
        /\ (weekStart.day + 3) % 7 = 0 /\ (weekEnd.day + 4) % 7 = 0
        /\ weekEnd.day = weekStart.day + 6
        /\ AtOrBefore(weekStart, weekEnd)
        /\ Before(weekEnd, now)
        /\ now.day - weekEnd.day \in 1 .. 7

\* on Sunday 2023-01-01 the window is 2022-12-19 to 2022-12-25
C18_Witness ==
    /\ variant = "summary" /\ pc = "page"
    /\ now.day = newDate(2023, 0, 1) /\ now.ms > 0
    /\ weekStart = Instant(newDate(2022, 11, 19), 0)
    /\ weekEnd = Instant(newDate(2022, 11, 25), 24 * 60 * 60 * 1000 - 1)

RECURSIVE Spaced(_)
\* strings with a single space between each and the next
Spaced(texts) ==
    IF Len(texts) = 0 THEN <<>>
    ELSE IF Len(texts) = 1 THEN texts[1]
    ELSE Spaced(SubSeq(texts, 1, Len(texts) - 1)) \o <<" ">> \o texts[Len(texts)]

\* the texts of a block's spans with a single space between them
SpanTexts(block) ==
    IF block.content = <<>> THEN <<>>
    ELSE Spaced([c \in 1 .. Len(block.content[1]) |->
                   IF block.content[1][c].text = <<>> THEN <<>>
                   ELSE block.content[1][c].text])

\* C19: the comment of every normalized worklog is a string, never null or
\* absent: the empty string when the raw worklog has no comment, or its
\* comment has no content or no blocks, and otherwise the texts of each
\* block's spans with a single space between them, the blocks' results in
\* block order with a single space between them.
C19_CommentIsString ==
    \A k \in 1 .. Len(allLogs) :
        LET raw == serverLogs[allLogs[k].id].comment
            flat == allLogs[k].comment
        IN  /\ flat.defined
            /\ (raw = <<>> \/ raw[1].content = <<>> \/ raw[1].content[1] = <<>>)
                  => flat.text = <<>>
            /\ (raw # <<>> /\ raw[1].content # <<>> /\ raw[1].content[1] # <<>>)
                  => flat.text = Spaced([b \in 1 .. Len(raw[1].content[1]) |->
                                           SpanTexts(raw[1].content[1][b])])

\* a comment of two blocks, "Fixed" "bug" and "Done", became "Fixed bug Done"
C19_Witness ==
    /\ Len(allLogs) = 1
    /\ serverLogs[1].comment =
          <<[content |-> << <<[content |-> <<  <<[text |-> <<"Fixed">>], [text |-> <<"bug">>]>>  >>],
                              [content |-> <<  <<[text |-> <<"Done">>]>>  >>]>> >>]>>
    /\ allLogs[1].comment.defined
    /\ allLogs[1].comment.text = <<"Fixed", " ", "bug", " ", "Done">>

\* a worklog without a comment was normalized to the empty string
C19_WitnessAbsent ==
    /\ Len(allLogs) = 1 /\ serverLogs[1].comment = <<>>
    /\ allLogs[1].comment.defined /\ allLogs[1].comment.text = <<>>

\* the paginator of a summary run has returned an empty list
NoIdsReturned ==
    /\ variant = "summary" /\ entry # "paginator"
    /\ PageReqs # <<>> /\ PageReqs[Len(PageReqs)].ok /\ PagesDone
    /\ worklogIds = <<>>

\* C20: a summary run whose paginator returned no worklog ids issues no
\* batch request and no issue lookup, raises no error, and ends with an empty
\* table and, when --csv is given, a CSV holding the header row only (no CSV
\* otherwise).
C20_EmptyIsNotAnError ==
    NoIdsReturned =>
        /\ BatchReqs = <<>> /\ LookupReqs = <<>> /\ SearchReqs = <<>>
        /\ pc \in {"chunk", "rows", "done"} /\ err = ""
        /\ allLogs = <<>> /\ tableRows = <<>>
        /\ pc = "done" =>
              /\ table = << <<>> >>
              /\ argv.csv # "" =>
                    csvFile = <<[path |-> argv.csv,
                                 content |-> <<"Author,Ticket,TotalTimeSpentMinutes">>]>>
              /\ argv.csv = "" => csvFile = <<>>

\* a summary run with --csv has completed without a worklog
C20_Witness ==
    /\ NoIdsReturned /\ pc = "done" /\ argv.csv = "out.csv"
    /\ Len(requests) = 1
    /\ table = << <<>> >>
    /\ Len(csvFile) = 1 /\ Len(csvFile[1].content) = 1

====
